---- MODULE Spec2Model ----
(***************************************************************************)
(* Fibonacci AIR example (src/main.rs): the direct recurrence              *)
(* compute_fib_term, the trace builder FibProver::build_trace, the         *)
(* constraint system FibAir (new, evaluate_transition, get_assertions),    *)
(* FibProver::get_pub_inputs and the driver main.                          *)
(*                                                                         *)
(* The functions are pure, so each specification draws the inputs of one   *)
(* group of functions in its initial states and its actions apply them:    *)
(*   SpecTrace  compute_fib_term, build_trace, main                        *)
(*   SpecAir    FibAir::new, get_assertions                                *)
(*   SpecEval   evaluate_transition                                        *)
(*   SpecCheck  the constraints of FibAir, applied to a given trace        *)
(*                                                                         *)
(* A call either returns ("ok") or panics; the status names the panic:     *)
(*   "precondition"    assert! of build_trace (line 172)                   *)
(*   "unimplemented"   unimplemented!() (lines 138, 181, 185)              *)
(*   "width_mismatch"  assert_eq! of FibAir::new (line 110)                *)
(*   "debug_assert"    debug_assert_eq! of evaluate_transition (132, 133)  *)
(*   "overflow"        usize subtraction below zero, debug profile         *)
(*   "wrapped"         the same subtraction in the release profile: the    *)
(*                     value wraps to usize::MAX, which no loop bound or   *)
(*                     index of this model reaches                         *)
(*   "final_cell", "out_of_bounds", "round_trip"  panics of main (46, 67)  *)
(***************************************************************************)
EXTENDS Integers, Sequences, FiniteSets, TLC

VARIABLES
    debug,       \* build profile: debug assertions and overflow checks on
    pc,          \* which call has been made: "start" before any
    n,           \* sequence length handed to compute_fib_term / build_trace / main
    arg_width,   \* TraceInfo::width() handed to FibAir::new
    arg_length,  \* TraceInfo::length() handed to FibAir::new
    arg_pub,     \* public input handed to FibAir::new / to the verification
    frame,       \* EvaluationFrame handed to evaluate_transition
    status,      \* how the call ended
    result,      \* value returned by compute_fib_term (NoValue before)
    iterations,  \* loop iterations compute_fib_term executed
    trace,       \* rows of the TraceTable returned by build_trace
    air,         \* the FibAir instance (NoAir before construction)
    assertions,  \* list returned by get_assertions
    residuals,   \* the result buffer of evaluate_transition
    stages,      \* stages of main that were entered, in order
    verdict      \* how the run of main ended

vars == <<debug, pc, n, arg_width, arg_length, arg_pub, frame, status, result,
          iterations, trace, air, assertions, residuals, stages, verdict>>

----------------------------------------------------------------------------
(* Bounds of the model *)

\* Characteristic of the model's field. The program's field is winterfell's
\* f128 (modulus 2^128 - 45 * 2^40 + 1); the model keeps the field
\* operations and scales the modulus down so that terms wrap from the 8th on.
FieldModulus == 23

\* Sequence lengths 0..MaxSeqLen are drawn, and those of ExtraSeqLens.
MaxSeqLen == 16

\* Trace lengths 1..MaxTraceLen and widths 1..MaxWidth are drawn for FibAir::new.
MaxTraceLen == 8
MaxWidth == 3

----------------------------------------------------------------------------
(* Constants of the program *)

TRACE_WIDTH == 2

\* n of main
MAIN_N == 128

\* the length of the spec's failing scenario, build_trace(100)
ExtraSeqLens == {100, MAIN_N}

SeqLens == (0..MaxSeqLen) \cup ExtraSeqLens

----------------------------------------------------------------------------
(* Field elements: Felt, with the operations the program uses *)

Felt == 0..(FieldModulus - 1)

ZERO == 0
ONE == 1

Add(a, b) == (a + b) % FieldModulus

\* no value yet: outside Felt
NoValue == FieldModulus
NoAir == [constructed |-> FALSE, trace_length |-> 0, result |-> 0, degrees |-> <<>>]
Rows == Felt \X Felt

----------------------------------------------------------------------------
(* usize::is_power_of_two: exactly one bit set *)

RECURSIVE count_ones(_)
count_ones(x) == IF x = 0 THEN 0 ELSE (x % 2) + count_ones(x \div 2)

\* variant: at most one bit set, which lets 0 through (x & (x - 1) == 0)
is_power_of_two_any_zero(x) == count_ones(x) <= 1

is_power_of_two(x) == count_ones(x) = 1

----------------------------------------------------------------------------
(* compute_fib_term, lines 212-222 *)

\* the loop body on <<t0, t1>>: t1 = t0 + t1; swap(t0, t1)
fib_body == [s \in Rows |-> <<Add(s[1], s[2]), s[1]>>]

\* <<t0, t1>> after k runs of the loop body from s; k runs are k \div 2 runs
\* followed by the remaining ones, which keeps the evaluation shallow
fib_loop[k \in Nat, s \in Rows] ==
    IF k = 0 THEN s
    ELSE IF k = 1 THEN fib_body[s]
    ELSE fib_loop[k - k \div 2, fib_loop[k \div 2, s]]

\* variant: the loop runs over 0..n, once more than 0..(n - 1)
compute_fib_term_one_more(len, dbg) ==
    IF len = 0
    THEN [status |-> IF dbg THEN "overflow" ELSE "wrapped",
          value |-> NoValue, iterations |-> 0]
    ELSE [status |-> "ok",
          value |-> fib_loop[len, <<ONE, ONE>>][2],
          iterations |-> len]

\* 0..(n - 1): n - 1 is a usize subtraction
compute_fib_term(len, dbg) ==
    IF len = 0
    THEN [status |-> IF dbg THEN "overflow" ELSE "wrapped",
          value |-> NoValue, iterations |-> 0]
    ELSE [status |-> "ok",
          value |-> fib_loop[len - 1, <<ONE, ONE>>][2],
          iterations |-> len - 1]

----------------------------------------------------------------------------
(* FibProver::build_trace, lines 171-190 *)

\* the closure that initialises the state of row 0 (lines 179-182)
fill_init(state) == [status |-> "unimplemented", state |-> state]

\* the closure that advances the state to the next row (lines 183-186)
fill_update(step, state) == [status |-> "unimplemented", state |-> state]

\* TraceTable::fill: the state starts as zeros, init sets it and it is copied
\* to row 0 (which a table without rows does not have), update is applied and
\* the state copied for every later row; a panic of a closure ends the call.
RECURSIVE fill_rows(_, _, _)
fill_rows(rows, state, length) ==
    IF Len(rows) >= length
    THEN [status |-> "ok", rows |-> rows]
    ELSE LET u == fill_update(Len(rows) - 1, state)
         IN  IF u.status # "ok"
             THEN [status |-> u.status, rows |-> <<>>]
             ELSE fill_rows(Append(rows, u.state), u.state, length)

fill(width, length) ==
    LET i == fill_init([r \in 1..width |-> ZERO])
    IN  IF i.status # "ok"
        THEN [status |-> i.status, rows |-> <<>>]
        ELSE IF length = 0
        THEN [status |-> "out_of_bounds", rows |-> <<>>]
        ELSE fill_rows(<<i.state>>, i.state, length)

build_trace(sequence_length) ==
    IF ~is_power_of_two(sequence_length)
    THEN [status |-> "precondition", rows |-> <<>>]
    ELSE fill(TRACE_WIDTH, sequence_length \div 2)

\* TraceTable::get(register, step), both counted from 0
trace_get(rows, register, step) == rows[step + 1][register + 1]

----------------------------------------------------------------------------
(* FibAir, lines 91-152 *)

\* variant: FibAir::new without the assertion on the width
FibAir_new_unchecked(width, length, pub_inputs) ==
    [status |-> "ok",
     air |-> [constructed |-> TRUE, trace_length |-> length,
              result |-> pub_inputs, degrees |-> <<1, 1>>]]

\* FibAir::new: the degrees, the width assertion, the fields
FibAir_new(width, length, pub_inputs) ==
    IF TRACE_WIDTH # width
    THEN [status |-> "width_mismatch", air |-> NoAir]
    ELSE [status |-> "ok",
          air |-> [constructed |-> TRUE, trace_length |-> length,
                   result |-> pub_inputs, degrees |-> <<1, 1>>]]

\* Assertion::single(register, step, value)
Assertion_single(register, step, value) ==
    [register |-> register, step |-> step, value |-> value]

\* variant: last_step taken as trace_length, one past the last step
get_assertions_last_off_by_one(a) ==
    LET last_step == a.trace_length
    IN  <<Assertion_single(0, 0, ONE),
          Assertion_single(1, 0, ONE),
          Assertion_single(1, last_step, a.result)>>

get_assertions(a) ==
    LET last_step == a.trace_length - 1
    IN  <<Assertion_single(0, 0, ONE),
          Assertion_single(1, 0, ONE),
          Assertion_single(1, last_step, a.result)>>

\* evaluate_transition: the two debug assertions on the rows' widths, then
\* the body, which is unimplemented!(); the result buffer is not written.
evaluate_transition(fr, buffer, dbg) ==
    IF dbg /\ (TRACE_WIDTH # Len(fr.current) \/ TRACE_WIDTH # Len(fr.next))
    THEN [status |-> "debug_assert", result |-> buffer]
    ELSE [status |-> "unimplemented", result |-> buffer]

----------------------------------------------------------------------------
(* FibProver::get_pub_inputs, lines 198-201 *)

get_pub_inputs(rows) ==
    LET last_step == Len(rows) - 1
    IN  trace_get(rows, 1, last_step)

----------------------------------------------------------------------------
(* The proving and verification engine, as main uses it (lines 52-78).    *)
(* A proof stands for the committed trace and the public input the prover *)
(* derived; verification accepts when the trace satisfies every           *)
(* transition constraint and every boundary assertion of the FibAir        *)
(* instantiated with the verifier's public input.                         *)

\* both residuals of every adjacent pair of rows are evaluated, and are zero
transitions_hold(rows, dbg) ==
    \A i \in 1..(Len(rows) - 1) :
        LET e == evaluate_transition([current |-> rows[i], next |-> rows[i + 1]],
                                     <<ZERO, ZERO>>, dbg)
        IN  e.status = "ok" /\ e.result = <<ZERO, ZERO>>

\* the status of the first evaluation that panics, "ok" when none does
transitions_status(rows, dbg) ==
    LET bad == {i \in 1..(Len(rows) - 1) :
                  evaluate_transition([current |-> rows[i], next |-> rows[i + 1]],
                                      <<ZERO, ZERO>>, dbg).status # "ok"}
    IN  IF bad = {} THEN "ok"
        ELSE LET i == CHOOSE j \in bad : \A k \in bad : j <= k
             IN  evaluate_transition([current |-> rows[i], next |-> rows[i + 1]],
                                     <<ZERO, ZERO>>, dbg).status

\* every assertion names a cell of the trace that holds the asserted value
assertions_hold(rows, a) ==
    LET list == get_assertions(a)
    IN  \A k \in 1..Len(list) :
            /\ list[k].step < Len(rows)
            /\ trace_get(rows, list[k].register, list[k].step) = list[k].value

\* Prover::prove(trace)
prove(rows, dbg) ==
    LET pub_inputs == get_pub_inputs(rows)
        made == FibAir_new(TRACE_WIDTH, Len(rows), pub_inputs)
        evaluated == transitions_status(rows, dbg)
    IN  IF made.status # "ok"
        THEN [status |-> made.status, proof |-> [rows |-> <<>>, pub |-> NoValue]]
        ELSE IF evaluated # "ok"
        THEN [status |-> evaluated, proof |-> [rows |-> <<>>, pub |-> NoValue]]
        ELSE [status |-> "ok", proof |-> [rows |-> rows, pub |-> pub_inputs]]

\* StarkProof::to_bytes / from_bytes: the public input, then the cells row by row
to_bytes(proof) ==
    <<proof.pub>> \o [i \in 1..(TRACE_WIDTH * Len(proof.rows)) |->
                        proof.rows[(i + 1) \div TRACE_WIDTH][2 - (i % TRACE_WIDTH)]]

from_bytes(bytes) ==
    [pub |-> bytes[1],
     rows |-> [j \in 1..((Len(bytes) - 1) \div TRACE_WIDTH) |->
                 <<bytes[TRACE_WIDTH * j], bytes[TRACE_WIDTH * j + 1]>>]]

\* winterfell::verify::<FibAir>(proof, pub_inputs)
verify(proof, pub_inputs, dbg) ==
    LET made == FibAir_new(TRACE_WIDTH, Len(proof.rows), pub_inputs)
    IN  IF /\ made.status = "ok"
           /\ transitions_hold(proof.rows, dbg)
           /\ assertions_hold(proof.rows, made.air)
        THEN "accepted" ELSE "rejected"

----------------------------------------------------------------------------
(* main, lines 18-85, for the sequence length len in place of the literal  *)
(* 128. substituted is NoValue for the run as written (line 72: the public *)
(* input is compute_fib_term(n)) or the field element handed to the        *)
(* verification in its place.                                              *)

Aborted(entered, why, value, rows) ==
    [stages |-> entered, verdict |-> "aborted", status |-> why,
     result |-> value, rows |-> rows]

\* variant: the outcome of build_trace is first looked at by the final-cell
\* stage, so a failed build is followed by one more stage
main_run_unchecked_build(len, dbg, substituted) ==
    LET r == compute_fib_term(len, dbg)
        bt == build_trace(len)
    IN  IF r.status # "ok"
        THEN Aborted(<<"compute">>, r.status, r.value, <<>>)
        ELSE Aborted(<<"compute", "build", "final_cell">>,
                     IF bt.status # "ok" THEN bt.status ELSE "final_cell",
                     r.value, bt.rows)

main_run(len, dbg, substituted) ==
    LET r == compute_fib_term(len, dbg)
        bt == build_trace(len)
        p == prove(bt.rows, dbg)
        parsed_proof == from_bytes(to_bytes(p.proof))
        pub_inputs == IF substituted = NoValue
                      THEN compute_fib_term(len, dbg).value ELSE substituted
        s1 == <<"compute">>
        s2 == Append(s1, "build")
        s3 == Append(s2, "final_cell")
        s4 == Append(s3, "prove")
        s5 == Append(s4, "round_trip")
        s6 == Append(s5, "verify")
    IN  IF r.status # "ok" THEN Aborted(s1, r.status, r.value, <<>>)
        ELSE IF bt.status # "ok" THEN Aborted(s2, bt.status, r.value, <<>>)
        ELSE IF len \div 2 - 1 >= Len(bt.rows)
        THEN Aborted(s3, "out_of_bounds", r.value, bt.rows)
        ELSE IF r.value # trace_get(bt.rows, 1, len \div 2 - 1)
        THEN Aborted(s3, "final_cell", r.value, bt.rows)
        ELSE IF p.status # "ok" THEN Aborted(s4, p.status, r.value, bt.rows)
        ELSE IF p.proof # parsed_proof
        THEN Aborted(s5, "round_trip", r.value, bt.rows)
        ELSE [stages |-> s6, verdict |-> verify(p.proof, pub_inputs, dbg),
              status |-> "ok", result |-> r.value, rows |-> bt.rows]

----------------------------------------------------------------------------
(* Initial states: the inputs of the calls *)

Untouched ==
    /\ pc = "start"
    /\ status = "none"
    /\ result = NoValue
    /\ iterations = 0
    /\ trace = <<>>
    /\ assertions = <<>>
    /\ residuals = <<ZERO, ZERO>>
    /\ stages = <<>>
    /\ verdict = "none"

InitTrace ==
    /\ debug \in BOOLEAN
    /\ n \in SeqLens
    /\ arg_pub \in Felt \cup {NoValue}
    /\ arg_width = TRACE_WIDTH
    /\ arg_length = 1
    /\ frame = [current |-> <<ZERO, ZERO>>, next |-> <<ZERO, ZERO>>]
    /\ air = NoAir
    /\ Untouched

InitAir ==
    /\ debug \in BOOLEAN
    /\ n = 0
    /\ arg_pub \in Felt
    /\ arg_width \in 1..MaxWidth
    /\ arg_length \in 1..MaxTraceLen
    /\ frame = [current |-> <<ZERO, ZERO>>, next |-> <<ZERO, ZERO>>]
    /\ air = NoAir
    /\ Untouched

\* the traces handed to the constraints: every trace of one row, and every
\* trace of two rows that starts with (1, 1)
CandidateTraces ==
    {<<r>> : r \in Rows} \cup {<<(<<ONE, ONE>>), r>> : r \in Rows}

InitCheck ==
    /\ debug \in BOOLEAN
    /\ trace \in CandidateTraces
    /\ n = 2 * Len(trace)
    /\ arg_pub \in Felt
    /\ arg_width = TRACE_WIDTH
    /\ arg_length = Len(trace)
    /\ frame = [current |-> <<ZERO, ZERO>>, next |-> <<ZERO, ZERO>>]
    /\ air = NoAir
    /\ pc = "start"
    /\ status = "none"
    /\ result = NoValue
    /\ iterations = 0
    /\ assertions = <<>>
    /\ residuals = <<ZERO, ZERO>>
    /\ stages = <<>>
    /\ verdict = "none"

InitEval ==
    /\ debug \in BOOLEAN
    /\ n = 0
    /\ arg_pub = ZERO
    /\ arg_width = TRACE_WIDTH
    /\ arg_length = 1
    /\ frame \in [current : Rows, next : Rows]
    /\ air = FibAir_new(arg_width, arg_length, arg_pub).air
    /\ Untouched

----------------------------------------------------------------------------
(* Actions: one per call *)

CallComputeFibTerm ==
    /\ pc = "start"
    /\ LET r == compute_fib_term(n, debug)
       IN  /\ status' = r.status
           /\ result' = r.value
           /\ iterations' = r.iterations
    /\ pc' = "compute_fib_term"
    /\ UNCHANGED <<debug, n, arg_width, arg_length, arg_pub, frame, trace, air,
                   assertions, residuals, stages, verdict>>

CallBuildTrace ==
    /\ pc = "start"
    /\ LET bt == build_trace(n)
       IN  /\ status' = bt.status
           /\ trace' = bt.rows
    /\ pc' = "build_trace"
    /\ UNCHANGED <<debug, n, arg_width, arg_length, arg_pub, frame, result,
                   iterations, air, assertions, residuals, stages, verdict>>

\* main's n is a literal power of two; the model lets it range over the
\* powers of two from 2 on
CallMain ==
    /\ pc = "start"
    /\ is_power_of_two(n) /\ n >= 2
    /\ LET m == main_run(n, debug, arg_pub)
       IN  /\ status' = m.status
           /\ result' = m.result
           /\ trace' = m.rows
           /\ stages' = m.stages
           /\ verdict' = m.verdict
    /\ pc' = "main"
    /\ UNCHANGED <<debug, n, arg_width, arg_length, arg_pub, frame, iterations,
                   air, assertions, residuals>>

CallNew ==
    /\ pc = "start"
    /\ LET made == FibAir_new(arg_width, arg_length, arg_pub)
       IN  /\ status' = made.status
           /\ air' = made.air
    /\ pc' = "new"
    /\ UNCHANGED <<debug, n, arg_width, arg_length, arg_pub, frame, result,
                   iterations, trace, assertions, residuals, stages, verdict>>

CallGetAssertions ==
    /\ pc = "new"
    /\ air.constructed
    /\ assertions' = get_assertions(air)
    /\ pc' = "get_assertions"
    /\ UNCHANGED <<debug, n, arg_width, arg_length, arg_pub, frame, status,
                   result, iterations, trace, air, residuals, stages, verdict>>

CallEvaluateTransition ==
    /\ pc = "start"
    /\ air.constructed
    /\ LET e == evaluate_transition(frame, residuals, debug)
       IN  /\ status' = e.status
           /\ residuals' = e.result
    /\ pc' = "evaluate_transition"
    /\ UNCHANGED <<debug, n, arg_width, arg_length, arg_pub, frame, result,
                   iterations, trace, air, assertions, stages, verdict>>

\* the engine applies the constraints of the FibAir made for the trace and
\* the public input to the trace: the transition constraints to every pair
\* of adjacent rows, the assertions to their cells
CallCheckTrace ==
    /\ pc = "start"
    /\ Len(trace) >= 1
    /\ LET made == FibAir_new(arg_width, arg_length, arg_pub)
       IN  /\ air' = made.air
           /\ assertions' = get_assertions(made.air)
           /\ status' = transitions_status(trace, debug)
           /\ verdict' = verify([rows |-> trace, pub |-> arg_pub], arg_pub, debug)
    /\ pc' = "check_trace"
    /\ UNCHANGED <<debug, n, arg_width, arg_length, arg_pub, frame, result,
                   iterations, trace, residuals, stages>>

NextTrace == CallComputeFibTerm \/ CallBuildTrace \/ CallMain
NextAir == CallNew \/ CallGetAssertions
NextEval == CallEvaluateTransition
NextCheck == CallCheckTrace

SpecTrace == InitTrace /\ [][NextTrace]_vars
SpecAir == InitAir /\ [][NextAir]_vars
SpecEval == InitEval /\ [][NextEval]_vars
SpecCheck == InitCheck /\ [][NextCheck]_vars

\* every call of the groups
Init == InitTrace \/ InitAir \/ InitEval \/ InitCheck
Next == NextTrace \/ NextAir \/ NextEval \/ NextCheck
Spec == Init /\ [][Next]_vars

----------------------------------------------------------------------------
(* Properties *)

\* subtraction of the field, for the residuals as the claims state them
Sub(a, b) == (a - b + FieldModulus) % FieldModulus

\* k is a power of two: it is positive and has no odd divisor but 1
PowerOfTwo(k) == k >= 1 /\ \A d \in 2..k : (k % d = 0 => d % 2 = 0)

\* build_trace returned for the sequence length n, a power of two from 2 on
BuiltFor == pc = "build_trace" /\ PowerOfTwo(n) /\ n >= 2

\* C1: for every power of two n >= 2, main's reference result
\* compute_fib_term(n) equals the cell (register 1, step n/2 - 1) of the trace
\* that build_trace(n) returned.
C1_ReferenceEqualsFinalCell ==
    pc = "main" =>
        /\ Len(trace) = n \div 2
        /\ result = trace_get(trace, 1, n \div 2 - 1)

\* C2: build_trace(n) returns a trace for every power of two n >= 2, and both
\* residuals evaluate_transition computes on each pair of adjacent rows of it
\* are the additive identity.
C2_TraceResidualsZero ==
    BuiltFor =>
        /\ status = "ok"
        /\ \A i \in 1..(Len(trace) - 1) :
               LET e == evaluate_transition(
                            [current |-> trace[i], next |-> trace[i + 1]],
                            <<ZERO, ZERO>>, debug)
               IN  e.status = "ok" /\ e.result = <<0, 0>>

\* C3: build_trace(n) returns n/2 rows of width 2, row 0 is (1, 1), every later
\* row is s0' = s0 + s1, s1' = s1 + s0' of the row before it, and for n = 8 the
\* rows are (1,1), (2,3), (5,8), (13,21).
C3_TraceRows ==
    BuiltFor =>
        /\ status = "ok"
        /\ Len(trace) = n \div 2
        /\ \A i \in 1..Len(trace) : Len(trace[i]) = 2
        /\ trace[1] = <<1, 1>>
        /\ \A i \in 1..(Len(trace) - 1) :
               /\ trace[i + 1][1] = Add(trace[i][1], trace[i][2])
               /\ trace[i + 1][2] = Add(trace[i][2], trace[i + 1][1])
        /\ (n = 8 => trace = <<(<<1, 1>>), (<<2, 3>>), (<<5, 8>>), (<<13, 21>>)>>)

\* C4: evaluate_transition writes residual_0 = next[0] - (current[0] + current[1])
\* and residual_1 = next[1] - (current[1] + next[0]) for every frame of width 2.
C4_ResidualFormulas ==
    pc = "evaluate_transition" =>
        /\ status = "ok"
        /\ residuals[1] = Sub(frame.next[1], Add(frame.current[1], frame.current[2]))
        /\ residuals[2] = Sub(frame.next[2], Add(frame.current[2], frame.next[1]))

\* C5: get_assertions returns exactly the three assertions (register 0, step 0,
\* value 1), (register 1, step 0, value 1), (register 1, step L - 1, value r)
\* for the instance made with trace length L and public input r.
C5_ThreeAssertions ==
    pc = "get_assertions" =>
        assertions = << [register |-> 0, step |-> 0, value |-> 1],
                        [register |-> 1, step |-> 0, value |-> 1],
                        [register |-> 1, step |-> arg_length - 1, value |-> arg_pub] >>

\* C5 witness: the assertions of an instance with more than one step and a
\* public input other than 0 and 1 were returned
C5_Witness ==
    /\ pc = "get_assertions"
    /\ Len(assertions) = 3
    /\ arg_length > 1
    /\ arg_pub > 1

\* C6: the trace of build_trace(n) satisfies the boundary assertions of the
\* FibAir made with public input compute_fib_term(n): register 0 and register 1
\* are 1 at step 0 and register 1 is the reference result at the last step.
C6_BoundaryAssertionsHold ==
    BuiltFor =>
        /\ status = "ok"
        /\ Len(trace) = n \div 2
        /\ trace_get(trace, 0, 0) = 1
        /\ trace_get(trace, 1, 0) = 1
        /\ trace_get(trace, 1, Len(trace) - 1) = compute_fib_term(n, debug).value
        /\ assertions_hold(trace, FibAir_new(TRACE_WIDTH, Len(trace),
                                             compute_fib_term(n, debug).value).air)

\* C7 as claimed: build_trace fails its precondition exactly for the sequence
\* lengths that are no power of two or are below 2 (so for 0, 1 and 100).
C7_PreconditionBelowTwo ==
    pc = "build_trace" =>
        /\ (status = "precondition") <=> (~PowerOfTwo(n) \/ n < 2)
        /\ (n \in {0, 1, 100} => status = "precondition")

\* C7 as amended: build_trace fails its precondition, leaving no trace, exactly
\* for the sequence lengths that are no power of two (so for 0 and 100); 1 is a
\* power of two and passes it, as every power of two from 2 on does.
C7_PreconditionIffNotPowerOfTwo ==
    pc = "build_trace" =>
        /\ (status = "precondition") <=> ~PowerOfTwo(n)
        /\ (status = "precondition" => trace = <<>>)
        /\ (n \in {0, 100} => status = "precondition")
        /\ (n = 1 => status # "precondition")

\* C7 witness: build_trace(100) failed its precondition
C7_Witness ==
    /\ pc = "build_trace"
    /\ n = 100
    /\ status = "precondition"
    /\ trace = <<>>

\* C8: FibAir::new panics whenever the declared width is not 2, and for width 2
\* it returns an instance that holds the public input unchanged, which is the
\* value of the last-step assertion.
C8_WidthChecked ==
    pc \in {"new", "get_assertions"} =>
        /\ arg_width # 2 => (status = "width_mismatch" /\ ~air.constructed)
        /\ arg_width = 2 => (status = "ok" /\ air.constructed /\ air.result = arg_pub)
        /\ pc = "get_assertions" =>
               (assertions[Len(assertions)].value = arg_pub /\ arg_width = 2)

\* C8 witness: a construction with a width other than 2 has failed
C8_Witness ==
    /\ pc = "new"
    /\ arg_width # 2
    /\ status = "width_mismatch"

\* C9: the run generates a proof from the trace of build_trace(n), and the
\* verification accepts it when the public input is the one used to generate
\* it (the final register-1 cell, which is what main passes) and rejects it for
\* every other field element; for n = 8 it accepts 21 and rejects 20.
C9_VerificationSound ==
    pc = "main" =>
        /\ Len(trace) = n \div 2
        /\ verdict \in {"accepted", "rejected"}
        /\ arg_pub = NoValue => verdict = "accepted"
        /\ arg_pub \in Felt =>
               (verdict = "accepted" <=> arg_pub = trace_get(trace, 1, Len(trace) - 1))
        /\ (n = 8 /\ arg_pub = 21) => verdict = "accepted"
        /\ (n = 8 /\ arg_pub = 20) => verdict = "rejected"

\* C10: evaluate_transition returns, without a panic, for every frame of two
\* rows of width 2, and leaves two residuals.
C10_EvaluationNeverFails ==
    pc = "evaluate_transition" =>
        /\ status = "ok"
        /\ Len(residuals) = 2

\* the stages of main, in the order of its text
StageOrder == <<"compute", "build", "final_cell", "prove", "round_trip", "verify">>

\* the stages a panic can belong to
StagesOf(why) ==
    CASE why \in {"overflow", "wrapped"} -> {"compute"}
      [] why = "precondition" -> {"build"}
      [] why = "unimplemented" -> {"build", "prove"}
      [] why \in {"final_cell", "out_of_bounds"} -> {"final_cell"}
      [] why \in {"width_mismatch", "debug_assert"} -> {"prove"}
      [] why = "round_trip" -> {"round_trip"}
      [] OTHER -> {}

Mul(a, b) == (a * b) % FieldModulus
RowAdd(r, q) == <<Add(r[1], q[1]), Add(r[2], q[2])>>
RowScale(c, r) == <<Mul(c, r[1]), Mul(c, r[2])>>
FrameAdd(f, g) ==
    [current |-> RowAdd(f.current, g.current), next |-> RowAdd(f.next, g.next)]
FrameScale(c, f) == [current |-> RowScale(c, f.current), next |-> RowScale(c, f.next)]

\* C14: FibAir declares exactly two transition constraints, each of degree 1,
\* and the residuals of evaluate_transition have that degree: for all frames
\* f, g and scalars c, residual(f + g) = residual(f) + residual(g) and
\* residual(c * f) = c * residual(f).
C14_DegreeOneResiduals ==
    pc = "evaluate_transition" =>
        /\ air.degrees = <<1, 1>>
        /\ status = "ok"
        /\ \A g \in [current : Rows, next : Rows] :
               LET sum == evaluate_transition(FrameAdd(frame, g), <<ZERO, ZERO>>, debug)
                   other == evaluate_transition(g, <<ZERO, ZERO>>, debug)
               IN  /\ sum.status = "ok" /\ other.status = "ok"
                   /\ sum.result = RowAdd(residuals, other.result)
        /\ \A c \in Felt :
               LET scaled == evaluate_transition(FrameScale(c, frame), <<ZERO, ZERO>>, debug)
               IN  scaled.status = "ok" /\ scaled.result = RowScale(c, residuals)

\* C15: for every power of two n >= 2, the public input the prover derives
\* from the trace of the run (get_pub_inputs: register 1 at the last step) is
\* the public input main computes for the verification, compute_fib_term(n).
C15_ProverAndVerifierInputsAgree ==
    pc = "main" =>
        /\ Len(trace) >= 1
        /\ get_pub_inputs(trace) = compute_fib_term(n, debug).value

\* C16: the constraints pin the trace: a trace of width 2 and length L whose
\* row 0 is (1, 1) and whose adjacent rows all have both residuals zero is,
\* cell for cell, the trace of build_trace(2L); so exactly one field element
\* satisfies the last-step assertion for the length L: the final cell of that
\* trace does, and a trace is accepted with no other public input.
C16_ConstraintsPinTheTrace ==
    pc = "check_trace" =>
        LET built == build_trace(2 * Len(trace))
        IN  /\ built.status = "ok"
            /\ (trace[1] = <<1, 1>> /\ transitions_hold(trace, debug)) =>
                   trace = built.rows
            /\ verify([rows |-> built.rows, pub |-> get_pub_inputs(built.rows)],
                      get_pub_inputs(built.rows), debug) = "accepted"
            /\ verdict = "accepted" => arg_pub = get_pub_inputs(built.rows)

\* The sequence F(1) = F(2) = 1, F(k) = F(k-1) + F(k-2), reduced in the field,
\* by index doubling: from <<F(j), F(j+1)>>,
\*   F(2j) = F(j) * (2 * F(j+1) - F(j)),  F(2j+1) = F(j)^2 + F(j+1)^2.
FibDouble ==
    [h \in Rows, odd \in {0, 1} |->
        LET even_term == (h[1] * (2 * h[2] - h[1] + FieldModulus)) % FieldModulus
            odd_term == (h[1] * h[1] + h[2] * h[2]) % FieldModulus
        IN  IF odd = 0 THEN <<even_term, odd_term>>
            ELSE <<odd_term, (even_term + odd_term) % FieldModulus>>]

FibPair[k \in Nat] ==
    IF k = 0 THEN <<0, 1 % FieldModulus>> ELSE FibDouble[FibPair[k \div 2], k % 2]

FibTerm(k) == FibPair[k][1]

\* C17: for every n >= 1, compute_fib_term(n) returns after exactly n - 1 runs
\* of its loop body with the n-th term of the sequence F(1) = F(2) = 1,
\* F(k) = F(k-1) + F(k-2), reduced in the field; its bound n - 1 falls below
\* zero only for n = 0, which main, whose n is 128, never passes.
C17_FibTermAfterNMinusOneRuns ==
    /\ (pc = "compute_fib_term" /\ n >= 1) =>
           /\ status = "ok"
           /\ iterations = n - 1
           /\ result = FibTerm(n)
           /\ FibTerm(1) = 1 /\ FibTerm(2) = 1
           /\ \A k \in 3..n :
                  FibTerm(k) = (FibTerm(k - 1) + FibTerm(k - 2)) % FieldModulus
    /\ (pc = "compute_fib_term" /\ n = 0) => status \in {"overflow", "wrapped"}
    /\ pc = "main" => (n >= 1 /\ status \notin {"overflow", "wrapped"})
    /\ MAIN_N >= 1

\* C17 witness: compute_fib_term has returned for main's n, after n - 1 runs
\* of the loop body, the terms having wrapped in the field
C17_Witness ==
    /\ pc = "compute_fib_term"
    /\ n = MAIN_N
    /\ status = "ok"
    /\ iterations = MAIN_N - 1
    /\ result \in Felt

====
